---- MODULE Spec2Model ----
(***************************************************************************)
(* Model of the offline enrichment code of tuanlda78202/leo:               *)
(*   - the two-phase batch engine shared by SummarizationAgent,            *)
(*     QualityScoreAgent and ContextualSummarizationAgent;                 *)
(*   - HeuristicQualityAgent;                                              *)
(*   - Crawl4AICrawler and the crawl step;                                 *)
(*   - the add_quality_score step on one document;                         *)
(*   - InstructDataset.from_samples and SummarizationDatasetGenerator.     *)
(* Scores are integers in tenths (2 is 0.2, 5 is 0.5, 10 is 1.0), split    *)
(* ratios integers in quarters.                                            *)
(* An optional value is a sequence: <<>> is None, <<v>> is the value v.    *)
(***************************************************************************)
EXTENDS Integers, Sequences, FiniteSets, TLC

\* ------------------------------------------------------------------ bounds
MaxItems == 2
MaxConcurrent == 2
MaxContent == 10
MaxChildUrls == 2
MaxUrlLen == 4
MaxPages == 2
MaxCrawlUrls == 3
MaxSamples == 3
MaxDocuments == 2
MaxLoops == 2
MaxCopies == 4
MaxFilters == 2

\* --------------------------------------------------------------- constants
FirstAwaitSeconds == 7
RetryAwaitSeconds == 20
MockScore == 5
DatasetSeed == 42
DefaultMinDocumentLength == 50
DefaultMinQualityScore == 3
MaxSummaryLengthFactor == 2
DefaultMaxCharacters == 256

None == <<>>
Some(v) == <<v>>

Agents == {"summarization", "quality", "contextual"}

VARIABLES
    agent,                   \* which agent class the call is made on
    mock,                    \* self.mock
    max_concurrent_requests, \* self.max_concurrent_requests
    running_loop,            \* the caller is inside a running event loop
    is_single_document,      \* the argument is one Document, not a list
    documents,               \* docs_list: the input items, in input order
    field,                   \* item -> summary / content_quality_score / contextual_summarization
    call_pc,                 \* position of __call__ and of the batch coroutine
    phases_run,              \* number of __process_batch invocations started
    await_time_seconds,      \* pacing interval of the running __process_batch
    task_pc,                 \* item -> position of its task in the running phase
    pending,                 \* item -> reply of the model call it is pacing after
    sem_value,               \* asyncio.Semaphore._value of the running phase
    sem_waiters,             \* asyncio.Semaphore._waiters (FIFO)
    results,                 \* results of the running __process_batch, completion order
    documents_with,          \* documents_with_summaries / documents_with_scores
    documents_without,       \* documents_without_summaries / documents_without_scores
    attempts,                \* item -> outcomes of its model calls, oldest first
    paced,                   \* item -> pacing sleeps it finished, oldest first
    returned,                \* value returned by __call__ (items)
    contextual_chunks        \* value returned by ContextualSummarizationAgent

engineVars == <<agent, mock, max_concurrent_requests, running_loop,
                is_single_document, documents, field, call_pc, phases_run,
                await_time_seconds, task_pc, pending, sem_value, sem_waiters,
                results, documents_with, documents_without, attempts, paced,
                returned, contextual_chunks>>

\* HeuristicQualityAgent
VARIABLES
    heuristic_pc,            \* "idle" before __score_document, "scored" after
    content,                 \* len(document.content)
    child_urls,              \* len(url) for each url of document.child_urls
    content_quality_score    \* document.content_quality_score

heuristicVars == <<heuristic_pc, content, child_urls, content_quality_score>>

\* Crawl4AICrawler and the crawl step
VARIABLES
    pages,                   \* the input documents of the crawl step
    crawler_max_concurrent_requests,
    crawler_running_loop,    \* the caller is inside a running event loop
    crawl_pc,                \* position of the crawl step and of __crawl_batch
    page_index,              \* index in pages of the page being crawled
    fetch_pc,                \* position in page.child_urls -> position of its task
    fetch_result,            \* position -> result of crawler.arun while pacing
    page_results,            \* position -> what the task returned (gather's slots)
    crawl_sem_value,         \* the one Semaphore of the batch: _value
    crawl_sem_waiters,       \* and its FIFO of waiting tasks
    fetches,                 \* <<page, position>> -> outcomes of its crawler.arun calls
    all_results,
    successful_results,      \* value returned by Crawl4AICrawler.__call__
    augmented_pages          \* value returned by the crawl step

crawlVars == <<pages, crawler_max_concurrent_requests, crawler_running_loop,
               crawl_pc, page_index, fetch_pc, fetch_result, page_results,
               crawl_sem_value, crawl_sem_waiters, fetches, all_results,
               successful_results, augmented_pages>>

\* QualityScoreAgent on the one document of the heuristic variables
VARIABLES
    quality_mock,            \* QualityScoreAgent.mock
    quality_calls,           \* the replies of the model calls made for the document
    step_pc,                 \* "scoring", "returned" (add_quality_score), "filtered"
    scored_docs,             \* what add_quality_score returned, as document ids
    content_quality_score_threshold,   \* of filter_by_quality, in tenths
    valid_docs               \* what filter_by_quality returned, as document ids

scoringVars == <<quality_mock, quality_calls, step_pc, scored_docs,
                 content_quality_score_threshold, valid_docs>>

\* InstructDataset.from_samples and the random module
VARIABLES
    samples,                 \* the samples argument
    val_split_ratio,         \* in eighths
    test_split_ratio,        \* in eighths
    seed,                    \* None or Some(int)
    rng_state,               \* the state of the global generator of random
    datasets                 \* what the calls made so far returned or raised

splitVars == <<samples, val_split_ratio, test_split_ratio, seed, rng_state, datasets>>

\* SummarizationDatasetGenerator
VARIABLES
    generate_pc,             \* "idle", "loop", "returned", "raised", "assertion_error"
    generator_documents,     \* the documents argument of generate
    generator_mock,
    min_document_length,
    min_quality_score,
    summarization_max_characters,
    augmentation_loops,
    generator_val_split_ratio,
    generator_test_split_ratio,
    filtered_documents,      \* after the pre-generation filters
    loop_i,                  \* i of for i in range(loops)
    summarized_documents,    \* pass -> what summarization_agent returned
    augmented_documents,
    filtered_summarized_documents,
    instruct_dataset_samples,
    generator_rng_state,
    instruct_dataset         \* what generate returned or raised

generatorVars == <<generate_pc, generator_documents, generator_mock,
                   min_document_length, min_quality_score,
                   summarization_max_characters,
                   augmentation_loops, generator_val_split_ratio,
                   generator_test_split_ratio, filtered_documents, loop_i,
                   summarized_documents, augmented_documents,
                   filtered_summarized_documents, instruct_dataset_samples,
                   generator_rng_state, instruct_dataset>>

\* SummarizationDatasetGenerator.filter_documents
VARIABLES
    filter_pc,               \* "idle" before the call, "returned" after
    filters,                 \* the filters argument, as the names of the filters
    filter_input,            \* the documents argument
    filter_output            \* the list returned

filterVars == <<filter_pc, filters, filter_input, filter_output>>

notEngineVars == <<heuristicVars, crawlVars, scoringVars, splitVars, generatorVars, filterVars>>
notHeuristicVars == <<engineVars, crawlVars, scoringVars, splitVars, generatorVars, filterVars>>
notCrawlVars == <<engineVars, heuristicVars, scoringVars, splitVars, generatorVars, filterVars>>
notScoringVars == <<engineVars, crawlVars, splitVars, generatorVars, filterVars>>
notSplitVars == <<engineVars, heuristicVars, crawlVars, scoringVars, generatorVars, filterVars>>
notGeneratorVars == <<engineVars, heuristicVars, crawlVars, scoringVars, splitVars, filterVars>>
notFilterVars == <<engineVars, heuristicVars, crawlVars, scoringVars, splitVars, generatorVars>>

vars == <<engineVars, heuristicVars, crawlVars, scoringVars, splitVars, generatorVars,
          filterVars>>

\* ----------------------------------------------------------- pure helpers
Range(s) == {s[k] : k \in 1..Len(s)}

RECURSIVE SelectItems(_, _)
\* [doc for doc in s if keep[doc]]
SelectItems(s, keep) ==
    IF s = <<>> THEN <<>>
    ELSE IF keep[Head(s)] THEN <<Head(s)>> \o SelectItems(Tail(s), keep)
         ELSE SelectItems(Tail(s), keep)

\* message.content values the model call can reply with, per agent
Contents(a) ==
    IF a = "quality"
    THEN {None, Some("not json"), Some("{\"score\": 0.7}")}
    ELSE IF a = "summarization"
         THEN {None, Some(""), Some("tl;dr")}
         ELSE {None, Some("tl;dr")}

\* a reply of acompletion: response.choices empty, or choices[0].message.content
Replies(a) ==
    {[choices |-> FALSE, content |-> None]} \cup
    {[choices |-> TRUE, content |-> c] : c \in Contents(a)}

\* the answers that json.loads and QualityScoreResponseFormat(score: float)
\* accept, with the score in tenths
ScoreJson ==
    {<<"{\"score\": -0.5}", -5>>, <<"{\"score\": 0.0}", 0>>,
     <<"{\"score\": 0.7}", 7>>, <<"{\"score\": 1.0}", 10>>,
     <<"{\"score\": 1.5}", 15>>, <<"{\"score\": \"0.8\"}", 8>>}

_parse_model_output_Zero(answer) ==
    IF \E p \in ScoreJson : answer = Some(p[1])
    THEN Some((CHOOSE p \in ScoreJson : answer = Some(p[1]))[2])
    ELSE Some(0)

\* json.loads(answer)["score"], validated by QualityScoreResponseFormat
_parse_model_output(answer) ==
    IF answer = None \/ answer = Some("") THEN None          \* if not answer
    ELSE IF \E p \in ScoreJson : answer = Some(p[1])
         THEN Some((CHOOSE p \in ScoreJson : answer = Some(p[1]))[2])
    ELSE None                                                \* except Exception

\* the value the agent's process_document stores for a reply (None: item unchanged)
ProcessReply(a, old, reply) ==
    IF ~reply.choices THEN old                               \* if not response.choices
    ELSE IF a = "quality"
         THEN LET quality_score == _parse_model_output(reply.content)
              IN  IF quality_score = None THEN old ELSE quality_score
         ELSE reply.content                                  \* add_summary(content)

MockValue_Unset(a) == None

\* the placeholder of mock mode
MockValue(a) ==
    IF a = "quality" THEN Some(MockScore) ELSE Some("This is a mock summary")

\* f"{doc.contextual_summarization}\n\n{doc.chunk}" or f"{doc.chunk}"
Chunk(i) == "chunk" \o ToString(i)

ContextualChunk_Bare(f, i) == Chunk(i)

ContextualChunk(f, i) ==
    IF f[i] # None THEN f[i][1] \o "\n\n" \o Chunk(i) ELSE Chunk(i)

\* ------------------------------------------------------------------- Init
InitEngine ==
    /\ agent \in Agents
    /\ mock \in BOOLEAN
    /\ max_concurrent_requests \in 1..MaxConcurrent
    /\ running_loop \in BOOLEAN
    /\ \E n \in 0..MaxItems : documents = [k \in 1..n |-> k]
    /\ is_single_document \in BOOLEAN
    /\ is_single_document => (Len(documents) = 1 /\ agent # "contextual")
    /\ field = [i \in Range(documents) |-> None]
    /\ call_pc = "idle"
    /\ phases_run = 0
    /\ await_time_seconds = 0
    /\ task_pc = [i \in Range(documents) |-> "none"]
    /\ pending = [i \in Range(documents) |-> None]
    /\ sem_value = 0
    /\ sem_waiters = <<>>
    /\ results = <<>>
    /\ documents_with = <<>>
    /\ documents_without = <<>>
    /\ attempts = [i \in Range(documents) |-> <<>>]
    /\ paced = [i \in Range(documents) |-> <<>>]
    /\ returned = <<>>
    /\ contextual_chunks = <<>>

\* -------------------------------------------------------- __process_batch
StartProcessBatch_FirstPace(items, seconds) ==
    /\ phases_run' = phases_run + 1
    /\ await_time_seconds' = FirstAwaitSeconds
    /\ sem_value' = max_concurrent_requests
    /\ sem_waiters' = <<>>
    /\ results' = <<>>
    /\ task_pc' = [i \in DOMAIN task_pc |->
                     IF i \in Range(items) THEN "created" ELSE "none"]

\* semaphore = asyncio.Semaphore(C); tasks = [...]; as_completed(tasks)
StartProcessBatch(items, seconds) ==
    /\ phases_run' = phases_run + 1
    /\ await_time_seconds' = seconds
    /\ sem_value' = max_concurrent_requests
    /\ sem_waiters' = <<>>
    /\ results' = <<>>
    /\ task_pc' = [i \in DOMAIN task_pc |->
                     IF i \in Range(items) THEN "created" ELSE "none"]

Release_Leak(i, pc) ==
    /\ sem_value' = sem_value
    /\ sem_waiters' = sem_waiters
    /\ task_pc' = [task_pc EXCEPT ![i] = pc]

\* Semaphore.release(): the first waiter, if any, takes the slot
Release(i, pc) ==
    IF sem_waiters = <<>>
    THEN /\ sem_value' = sem_value + 1
         /\ sem_waiters' = sem_waiters
         /\ task_pc' = [task_pc EXCEPT ![i] = pc]
    ELSE /\ sem_value' = sem_value
         /\ sem_waiters' = Tail(sem_waiters)
         /\ task_pc' = [task_pc EXCEPT ![i] = pc, ![Head(sem_waiters)] = "calling"]

InPhase == call_pc \in {"phase1", "phase2"}

Locked_NoGate(value, waiters) == FALSE

\* async with semaphore: the task must wait iff no slot is free
Locked(value, waiters) == value = 0 \/ waiters # <<>>

\* __call__: asyncio.get_running_loop() / asyncio.run / loop.run_until_complete
AgentCall ==
    /\ call_pc = "idle"
    /\ IF running_loop
       THEN \* loop.run_until_complete on a running loop: RuntimeError
            /\ call_pc' = "raised"
            /\ UNCHANGED <<phases_run, await_time_seconds, sem_value,
                           sem_waiters, results, task_pc>>
       ELSE /\ call_pc' = "phase1"
            /\ StartProcessBatch(documents, FirstAwaitSeconds)
    /\ UNCHANGED notEngineVars
    /\ UNCHANGED <<agent, mock, max_concurrent_requests, running_loop,
                   is_single_document, documents, field, pending,
                   documents_with, documents_without, attempts, paced,
                   returned, contextual_chunks>>

\* the task of item i runs up to its first suspension
TaskStart(i) ==
    /\ InPhase
    /\ task_pc[i] = "created"
    /\ IF mock
       THEN /\ field' = [field EXCEPT ![i] = MockValue(agent)]
            /\ task_pc' = [task_pc EXCEPT ![i] = "done"]
            /\ results' = Append(results, i)
            /\ UNCHANGED <<sem_value, sem_waiters>>
       ELSE /\ IF ~Locked(sem_value, sem_waiters)
               THEN /\ sem_value' = sem_value - 1
                    /\ task_pc' = [task_pc EXCEPT ![i] = "calling"]
                    /\ UNCHANGED sem_waiters
               ELSE /\ sem_waiters' = Append(sem_waiters, i)
                    /\ task_pc' = [task_pc EXCEPT ![i] = "waiting"]
                    /\ UNCHANGED sem_value
            /\ UNCHANGED <<field, results>>
    /\ UNCHANGED notEngineVars
    /\ UNCHANGED <<agent, mock, max_concurrent_requests, running_loop,
                   is_single_document, documents, call_pc, phases_run,
                   await_time_seconds, pending, documents_with,
                   documents_without, attempts, paced, returned,
                   contextual_chunks>>

AllStarted == \A j \in DOMAIN task_pc : task_pc[j] # "created"

\* await acompletion(...) returns a response; the task starts its pacing sleep
CallReturns(i, reply) ==
    /\ InPhase /\ AllStarted
    /\ task_pc[i] = "calling"
    /\ task_pc' = [task_pc EXCEPT ![i] = "pacing"]
    /\ pending' = [pending EXCEPT ![i] = Some(reply)]
    /\ attempts' = [attempts EXCEPT ![i] = Append(@, [raised |-> FALSE, reply |-> reply])]
    /\ UNCHANGED notEngineVars
    /\ UNCHANGED <<agent, mock, max_concurrent_requests, running_loop,
                   is_single_document, documents, field, call_pc, phases_run,
                   await_time_seconds, sem_value, sem_waiters, results,
                   documents_with, documents_without, paced, returned,
                   contextual_chunks>>

\* await acompletion(...) raises: except Exception -> return document
CallRaises(i) ==
    /\ InPhase /\ AllStarted
    /\ task_pc[i] = "calling"
    /\ attempts' = [attempts EXCEPT ![i] =
                      Append(@, [raised |-> TRUE,
                                 reply |-> [choices |-> FALSE, content |-> None]])]
    /\ Release(i, "done")
    /\ results' = Append(results, i)
    /\ UNCHANGED notEngineVars
    /\ UNCHANGED <<agent, mock, max_concurrent_requests, running_loop,
                   is_single_document, documents, field, call_pc, phases_run,
                   await_time_seconds, pending, documents_with,
                   documents_without, paced, returned, contextual_chunks>>

\* asyncio.sleep(await_time_seconds) is over: use the reply, leave the semaphore
PacingDone(i) ==
    /\ InPhase
    /\ task_pc[i] = "pacing"
    /\ field' = [field EXCEPT ![i] = ProcessReply(agent, @, pending[i][1])]
    /\ pending' = [pending EXCEPT ![i] = None]
    /\ paced' = [paced EXCEPT ![i] = Append(@, await_time_seconds)]
    /\ Release(i, "done")
    /\ results' = Append(results, i)
    /\ UNCHANGED notEngineVars
    /\ UNCHANGED <<agent, mock, max_concurrent_requests, running_loop,
                   is_single_document, documents, call_pc, phases_run,
                   await_time_seconds, documents_with, documents_without,
                   attempts, returned, contextual_chunks>>

Drained_Started == \A j \in DOMAIN task_pc : task_pc[j] # "created"

\* for coro in asyncio.as_completed(tasks): result = await coro  has consumed
\* every task
Drained == \A j \in DOMAIN task_pc : task_pc[j] \in {"none", "done"}

IsSet_Always == [i \in DOMAIN field |-> TRUE]

\* doc.summary is not None (or the score)
IsSet == [i \in DOMAIN field |-> field[i] # None]

IsUnset_Always == [i \in DOMAIN field |-> TRUE]

\* the items of the retry: doc.summary is None (or the score, or the
\* contextual summary)
IsUnset == [i \in DOMAIN field |-> field[i] = None]

\* the list the retry is built from: the input list (summarization,
\* contextual) or the phase-1 results (quality)
RetryCandidates == IF agent = "quality" THEN results ELSE documents

\* phase 1 is over: partition, then retry the failed items or finish
Phase1Done ==
    /\ call_pc = "phase1"
    /\ Drained
    /\ documents_with' = SelectItems(results, IsSet)
    /\ documents_without' = SelectItems(RetryCandidates, IsUnset)
    /\ IF documents_without' # <<>>
       THEN /\ call_pc' = "phase2"
            /\ StartProcessBatch(documents_without', RetryAwaitSeconds)
       ELSE /\ call_pc' = "return"
            /\ UNCHANGED <<phases_run, await_time_seconds, sem_value,
                           sem_waiters, results, task_pc>>
    /\ UNCHANGED notEngineVars
    /\ UNCHANGED <<agent, mock, max_concurrent_requests, running_loop,
                   is_single_document, documents, field, pending, attempts,
                   paced, returned, contextual_chunks>>

AfterRetry_Dropped(with, retry_results) == with

\* documents_with_summaries += retry_results
AfterRetry(with, retry_results) == with \o retry_results

\* phase 2 is over: the retry results join the phase-1 successes
Phase2Done ==
    /\ call_pc = "phase2"
    /\ Drained
    /\ documents_with' = AfterRetry(documents_with, results)
    /\ call_pc' = "return"
    /\ UNCHANGED notEngineVars
    /\ UNCHANGED <<agent, mock, max_concurrent_requests, running_loop,
                   is_single_document, documents, field, phases_run,
                   await_time_seconds, task_pc, pending, sem_value,
                   sem_waiters, results, documents_without, attempts, paced,
                   returned, contextual_chunks>>

\* success_count of the final log line: len(documents_with_summaries), and for
\* the quality agent the documents of that list whose score is not None
success_count ==
    IF agent = "quality" THEN Len(SelectItems(documents_with, IsSet))
    ELSE Len(documents_with)

\* failed_count = total_docs - success_count
failed_count == Len(documents) - success_count

\* the batch coroutine returns; __call__ returns results[0] or results
AgentReturn ==
    /\ call_pc = "return"
    /\ IF is_single_document /\ documents_with = <<>>
       THEN /\ call_pc' = "raised"         \* results[0]: IndexError
            /\ UNCHANGED <<returned, contextual_chunks>>
       ELSE /\ call_pc' = "returned"
            /\ returned' = documents_with
            /\ contextual_chunks' =
                 IF agent = "contextual"
                 THEN [k \in 1..Len(documents_with) |->
                         ContextualChunk(field, documents_with[k])]
                 ELSE <<>>
    /\ UNCHANGED notEngineVars
    /\ UNCHANGED <<agent, mock, max_concurrent_requests, running_loop,
                   is_single_document, documents, field, phases_run,
                   await_time_seconds, task_pc, pending, sem_value,
                   sem_waiters, results, documents_with, documents_without,
                   attempts, paced>>

NextEngine ==
    \/ AgentCall
    \/ \E i \in DOMAIN task_pc : TaskStart(i)
    \/ \E i \in DOMAIN task_pc : \E reply \in Replies(agent) : CallReturns(i, reply)
    \/ \E i \in DOMAIN task_pc : CallRaises(i)
    \/ \E i \in DOMAIN task_pc : PacingDone(i)
    \/ Phase1Done
    \/ Phase2Done
    \/ AgentReturn

\* state of the engine in the specifications that do not run it
IdleEngine ==
    /\ agent = "summarization"
    /\ mock = FALSE
    /\ max_concurrent_requests = 1
    /\ running_loop = FALSE
    /\ is_single_document = FALSE
    /\ documents = <<>>
    /\ field = <<>>
    /\ call_pc = "idle"
    /\ phases_run = 0
    /\ await_time_seconds = 0
    /\ task_pc = <<>>
    /\ pending = <<>>
    /\ sem_value = 0
    /\ sem_waiters = <<>>
    /\ results = <<>>
    /\ documents_with = <<>>
    /\ documents_without = <<>>
    /\ attempts = <<>>
    /\ paced = <<>>
    /\ returned = <<>>
    /\ contextual_chunks = <<>>

\* ------------------------------------------------- HeuristicQualityAgent
RECURSIVE SumLen(_)
\* sum(len(url) for url in document.child_urls)
SumLen(urls) == IF urls = <<>> THEN 0 ELSE Head(urls) + SumLen(Tail(urls))

SeqsUpTo(S, n) == UNION {[1..k -> S] : k \in 0..n}

\* url_content_ratio >= tenths / 10, with url_content_ratio = url_based_content / len(content);
\* the float quotient of two lengths compares to 0.7 and 0.5 as the exact ratio does
RatioAtLeast(url_based_content, len_content, tenths) ==
    10 * url_based_content >= tenths * len_content

__score_document_strict(len_content, urls, old) ==
    IF len_content = 0 THEN Some(0)
    ELSE IF 10 * SumLen(urls) > 7 * len_content THEN Some(0)
    ELSE IF 10 * SumLen(urls) > 5 * len_content THEN Some(2)
    ELSE old

\* HeuristicQualityAgent.__score_document: the score the document has afterwards
__score_document(len_content, urls, old) ==
    IF len_content = 0 THEN Some(0)
    ELSE LET url_based_content == SumLen(urls)
         IN  IF RatioAtLeast(url_based_content, len_content, 7) THEN Some(0)
             ELSE IF RatioAtLeast(url_based_content, len_content, 5) THEN Some(2)
             ELSE old

InitHeuristic ==
    /\ heuristic_pc = "idle"
    /\ content \in 0..MaxContent
    /\ child_urls \in SeqsUpTo(0..MaxUrlLen, MaxChildUrls)
    /\ content_quality_score = None

IdleHeuristic ==
    /\ heuristic_pc = "idle"
    /\ content = 0
    /\ child_urls = <<>>
    /\ content_quality_score = None

\* HeuristicQualityAgent.__call__ on one document
HeuristicScore ==
    /\ heuristic_pc = "idle"
    /\ heuristic_pc' = "scored"
    /\ content_quality_score' =
         __score_document(content, child_urls, content_quality_score)
    /\ UNCHANGED <<content, child_urls>>
    /\ UNCHANGED notHeuristicVars

\* ------------------------- add_quality_score step on one document
\* the outcomes of one acompletion call of QualityScoreAgent
ScoreCalls ==
    {[raised |-> TRUE, reply |-> [choices |-> FALSE, content |-> None]]} \cup
    {[raised |-> FALSE, reply |-> [choices |-> FALSE, content |-> None]]} \cup
    {[raised |-> FALSE, reply |-> [choices |-> TRUE, content |-> c]] :
        c \in {None, Some(""), Some("not json"), Some("{}"),
               Some("{\"score\": \"high\"}")}
              \cup {Some(p[1]) : p \in ScoreJson}}

InitScoring ==
    /\ quality_mock \in BOOLEAN
    /\ quality_calls = <<>>
    /\ step_pc = "scoring"
    /\ scored_docs = <<>>
    /\ content_quality_score_threshold = 0
    /\ valid_docs = <<>>

IdleScoring ==
    /\ quality_mock = FALSE
    /\ quality_calls = <<>>
    /\ step_pc = "scoring"
    /\ scored_docs = <<>>
    /\ content_quality_score_threshold = 0
    /\ valid_docs = <<>>

\* the score of the document after heuristic_agent(documents)
HeuristicResult == __score_document(content, child_urls, None)

docs_without_scores_All(score) == TRUE

\* docs_without_scores = [d for d in scored_docs if d.content_quality_score is None]
docs_without_scores(score) == score = None

\* score_agent(docs_without_scores) in mock mode: add_quality_score(score=0.5)
MockScoreDocument ==
    /\ heuristic_pc = "scored" /\ step_pc = "scoring"
    /\ docs_without_scores(content_quality_score)
    /\ quality_mock
    /\ content_quality_score' = MockValue("quality")
    /\ UNCHANGED <<heuristic_pc, content, child_urls>>
    /\ UNCHANGED scoringVars
    /\ UNCHANGED notScoringVars

\* score_agent(docs_without_scores): one call of __get_quality_score for the
\* document, the second one only while its score is still unset
ModelScoreDocument(call) ==
    /\ heuristic_pc = "scored" /\ step_pc = "scoring"
    /\ ~quality_mock
    /\ \/ quality_calls = <<>> /\ docs_without_scores(content_quality_score)
       \/ Len(quality_calls) = 1 /\ content_quality_score = None
    /\ quality_calls' = Append(quality_calls, call)
    /\ content_quality_score' =
         IF call.raised THEN content_quality_score
         ELSE ProcessReply("quality", content_quality_score, call.reply)
    /\ UNCHANGED <<heuristic_pc, content, child_urls, quality_mock, step_pc,
                   scored_docs, content_quality_score_threshold, valid_docs>>
    /\ UNCHANGED notScoringVars

\* the id of the document of the step
StepDocument == 1

\* score_agent has returned as far as the document goes: it was not
\* submitted, or it has its mock score, or its model calls are over
ScoreAgentDone ==
    \/ ~docs_without_scores(HeuristicResult)
    \/ quality_mock /\ content_quality_score # None
    \/ ~quality_mock /\ Len(quality_calls) = 1 /\ content_quality_score # None
    \/ ~quality_mock /\ Len(quality_calls) = 2

ScoreAgentResult_OnlyScored(submitted) ==
    IF content_quality_score # None THEN submitted ELSE <<>>

\* score_agent(docs_without_scores): the phase-1 successes and all the retry
\* results, so every submitted document, scored or not
ScoreAgentResult(submitted) == submitted

\* add_quality_score returns scored_docs_with_heuristics + scored_docs_with_model
AddQualityScoreReturn ==
    /\ heuristic_pc = "scored" /\ step_pc = "scoring"
    /\ ScoreAgentDone
    /\ LET scored_docs_with_heuristics ==
             IF HeuristicResult # None THEN <<StepDocument>> ELSE <<>>
           submitted ==
             IF docs_without_scores(HeuristicResult) THEN <<StepDocument>> ELSE <<>>
           scored_docs_with_model == ScoreAgentResult(submitted)
       IN  scored_docs' = scored_docs_with_heuristics \o scored_docs_with_model
    /\ step_pc' = "returned"
    /\ UNCHANGED <<heuristic_pc, content, child_urls, content_quality_score>>
    /\ UNCHANGED <<quality_mock, quality_calls, content_quality_score_threshold,
                   valid_docs>>
    /\ UNCHANGED notScoringVars

\* thresholds filter_by_quality is called with: 0 <= threshold <= 1
Thresholds == {0, 3, 10}

\* not doc.content_quality_score or doc.content_quality_score > threshold:
\* None and 0.0 are both falsy
KeptByQuality(score, threshold) ==
    \/ score = None \/ score[1] = 0
    \/ score[1] > threshold

\* filter_by_quality(documents, content_quality_score_threshold)
FilterByQuality(threshold) ==
    /\ step_pc = "returned"
    /\ content_quality_score_threshold' = threshold
    /\ valid_docs' =
         SelectItems(scored_docs,
                     [d \in Range(scored_docs) |->
                        KeptByQuality(content_quality_score, threshold)])
    /\ step_pc' = "filtered"
    /\ UNCHANGED <<heuristic_pc, content, child_urls, content_quality_score>>
    /\ UNCHANGED <<quality_mock, quality_calls, scored_docs>>
    /\ UNCHANGED notScoringVars

NextScoring ==
    \/ HeuristicScore
    \/ MockScoreDocument
    \/ \E call \in ScoreCalls : ModelScoreDocument(call)
    \/ AddQualityScoreReturn
    \/ \E threshold \in Thresholds : FilterByQuality(threshold)

\* ------------------------------------------- Crawl4AICrawler, crawl step
Urls == {"https://a", "https://b"}

\* values utils.generate_random_hex can give a new document: the id of an
\* input document, or an id no input document has
IdPool == {1, MaxPages + 1}

RECURSIVE TotalUrls(_)
TotalUrls(urls) == IF urls = <<>> THEN 0 ELSE Len(Head(urls)) + TotalUrls(Tail(urls))

FetchOutcomes == {"ok", "unsuccessful", "no_markdown"}

\* an input document of the crawl step
Page(k, urls) ==
    [id |-> k,
     metadata |-> [id |-> k, url |-> "https://page" \o ToString(k)],
     parent_metadata |-> None,
     child_urls |-> urls]

\* Document(id=document_id, metadata=DocumentMetaData(id=document_id, url=url, ...),
\*          parent_metadata=page.metadata, ...)
ChildDocument(document_id, page, url) ==
    [id |-> document_id,
     metadata |-> [id |-> document_id, url |-> url],
     parent_metadata |-> Some(page.metadata),
     child_urls |-> <<>>]

RECURSIVE NotNone(_)
\* [result for result in all_results if result is not None]
NotNone(s) ==
    IF s = <<>> THEN <<>>
    ELSE IF Head(s) # None THEN <<Head(s)[1]>> \o NotNone(Tail(s))
         ELSE NotNone(Tail(s))

RECURSIVE DedupById(_, _)
\* set(docs) with Document.__eq__ / __hash__ on id: the first of each id stays
DedupById(docs, seen) ==
    IF docs = <<>> THEN {}
    ELSE IF Head(docs).id \in seen THEN DedupById(Tail(docs), seen)
         ELSE {Head(docs)} \cup DedupById(Tail(docs), seen \cup {Head(docs).id})

ListOfSet_NoDedup(docs) == Range(docs)

\* list(set(augmented_pages)), as the collection of its elements
ListOfSet(docs) == DedupById(docs, {})

InitCrawl ==
    /\ \E n \in 0..MaxPages :
          \E urls \in [1..n -> SeqsUpTo(Urls, MaxCrawlUrls)] :
              /\ TotalUrls(urls) <= MaxCrawlUrls
              /\ pages = [k \in 1..n |-> Page(k, urls[k])]
    /\ crawler_max_concurrent_requests \in 1..MaxConcurrent
    /\ crawler_running_loop \in BOOLEAN
    /\ crawl_pc = "idle"
    /\ page_index = 0
    /\ fetch_pc = <<>>
    /\ fetch_result = <<>>
    /\ page_results = <<>>
    /\ crawl_sem_value = 0
    /\ crawl_sem_waiters = <<>>
    /\ fetches = [k \in 1..Len(pages) |-> [t \in 1..Len(pages[k].child_urls) |-> <<>>]]
    /\ all_results = <<>>
    /\ successful_results = <<>>
    /\ augmented_pages = {}

IdleCrawl ==
    /\ pages = <<>>
    /\ crawler_max_concurrent_requests = 1
    /\ crawler_running_loop = FALSE
    /\ crawl_pc = "idle"
    /\ page_index = 0
    /\ fetch_pc = <<>>
    /\ fetch_result = <<>>
    /\ page_results = <<>>
    /\ crawl_sem_value = 0
    /\ crawl_sem_waiters = <<>>
    /\ fetches = <<>>
    /\ all_results = <<>>
    /\ successful_results = <<>>
    /\ augmented_pages = {}

\* for page in pages: tasks = [...]; or, after the last page, leave the loop
NextPage(k) ==
    IF k <= Len(pages)
    THEN /\ crawl_pc' = "crawling"
         /\ page_index' = k
         /\ fetch_pc' = [t \in 1..Len(pages[k].child_urls) |-> "created"]
         /\ fetch_result' = [t \in 1..Len(pages[k].child_urls) |-> None]
         /\ page_results' = [t \in 1..Len(pages[k].child_urls) |-> None]
    ELSE /\ crawl_pc' = "batch_done"
         /\ page_index' = k
         /\ fetch_pc' = <<>>
         /\ fetch_result' = <<>>
         /\ page_results' = <<>>

\* crawl step: crawler(documents); Crawl4AICrawler.__call__
CrawlerCall ==
    /\ crawl_pc = "idle"
    /\ IF crawler_running_loop
       THEN \* loop.run_until_complete on a running loop: RuntimeError
            /\ crawl_pc' = "raised"
            /\ UNCHANGED <<page_index, fetch_pc, fetch_result, page_results,
                           crawl_sem_value>>
       ELSE /\ crawl_sem_value' = crawler_max_concurrent_requests
            /\ NextPage(1)
    /\ UNCHANGED <<pages, crawler_max_concurrent_requests, crawler_running_loop,
                   crawl_sem_waiters, fetches, all_results, successful_results,
                   augmented_pages>>
    /\ UNCHANGED notCrawlVars

\* gather starts the tasks in list order; each runs up to the semaphore
CrawlTaskStart(t) ==
    /\ crawl_pc = "crawling"
    /\ fetch_pc[t] = "created"
    /\ \A u \in 1..(t - 1) : fetch_pc[u] # "created"
    /\ IF ~Locked(crawl_sem_value, crawl_sem_waiters)
       THEN /\ crawl_sem_value' = crawl_sem_value - 1
            /\ fetch_pc' = [fetch_pc EXCEPT ![t] = "fetching"]
            /\ UNCHANGED crawl_sem_waiters
       ELSE /\ crawl_sem_waiters' = Append(crawl_sem_waiters, t)
            /\ fetch_pc' = [fetch_pc EXCEPT ![t] = "waiting"]
            /\ UNCHANGED crawl_sem_value
    /\ UNCHANGED <<pages, crawler_max_concurrent_requests, crawler_running_loop,
                   crawl_pc, page_index, fetch_result, page_results, fetches,
                   all_results, successful_results, augmented_pages>>
    /\ UNCHANGED notCrawlVars

CrawlAllStarted == \A u \in DOMAIN fetch_pc : fetch_pc[u] # "created"

FetchReturns_ReleaseEarly(t, outcome) ==
    /\ crawl_pc = "crawling" /\ CrawlAllStarted
    /\ fetch_pc[t] = "fetching"
    /\ fetch_pc' = [fetch_pc EXCEPT ![t] = "pacing"]
    /\ fetch_result' = [fetch_result EXCEPT ![t] = Some(outcome)]
    /\ fetches' = [fetches EXCEPT ![page_index][t] = Append(@, outcome)]
    /\ crawl_sem_value' = crawl_sem_value + 1
    /\ UNCHANGED <<pages, crawler_max_concurrent_requests, crawler_running_loop,
                   crawl_pc, page_index, page_results,
                   crawl_sem_waiters, all_results, successful_results,
                   augmented_pages>>
    /\ UNCHANGED notCrawlVars

\* result = await crawler.arun(url=url) returns; the task sleeps 0.5 s
FetchReturns(t, outcome) ==
    /\ crawl_pc = "crawling" /\ CrawlAllStarted
    /\ fetch_pc[t] = "fetching"
    /\ fetch_pc' = [fetch_pc EXCEPT ![t] = "pacing"]
    /\ fetch_result' = [fetch_result EXCEPT ![t] = Some(outcome)]
    /\ fetches' = [fetches EXCEPT ![page_index][t] = Append(@, outcome)]
    /\ UNCHANGED <<pages, crawler_max_concurrent_requests, crawler_running_loop,
                   crawl_pc, page_index, page_results, crawl_sem_value,
                   crawl_sem_waiters, all_results, successful_results,
                   augmented_pages>>
    /\ UNCHANGED notCrawlVars

\* crawler.arun raises: nothing catches it, gather re-raises it in
\* __crawl_batch, and the call (and the crawl step) ends with the exception
FetchRaises(t) ==
    /\ crawl_pc = "crawling" /\ CrawlAllStarted
    /\ fetch_pc[t] = "fetching"
    /\ fetches' = [fetches EXCEPT ![page_index][t] = Append(@, "raise")]
    /\ crawl_pc' = "raised"
    /\ UNCHANGED <<pages, crawler_max_concurrent_requests, crawler_running_loop,
                   page_index, fetch_pc, fetch_result, page_results,
                   crawl_sem_value, crawl_sem_waiters, all_results,
                   successful_results, augmented_pages>>
    /\ UNCHANGED notCrawlVars

CrawlUrlResult_NoMarkdownCheck(outcome, document_id, page, url) ==
    IF outcome = "unsuccessful" THEN None
    ELSE Some(ChildDocument(document_id, page, url))

\* what __crawl_url returns for a fetch result
CrawlUrlResult(outcome, document_id, page, url) ==
    IF outcome = "unsuccessful" THEN None       \* not result or not result.success
    ELSE IF outcome = "no_markdown" THEN None   \* result.markdown is None
    ELSE Some(ChildDocument(document_id, page, url))

\* the 0.5 s sleep is over: build the Document (or None), leave the semaphore
CrawlPacingDone(t, document_id) ==
    /\ crawl_pc = "crawling"
    /\ fetch_pc[t] = "pacing"
    /\ fetch_result[t] # Some("ok") => document_id = 1   \* no id is drawn
    /\ page_results' = [page_results EXCEPT ![t] =
           CrawlUrlResult(fetch_result[t][1], document_id, pages[page_index],
                          pages[page_index].child_urls[t])]
    /\ fetch_result' = [fetch_result EXCEPT ![t] = None]
    /\ IF crawl_sem_waiters = <<>>
       THEN /\ crawl_sem_value' = crawl_sem_value + 1
            /\ UNCHANGED crawl_sem_waiters
            /\ fetch_pc' = [fetch_pc EXCEPT ![t] = "done"]
       ELSE /\ UNCHANGED crawl_sem_value
            /\ crawl_sem_waiters' = Tail(crawl_sem_waiters)
            /\ fetch_pc' = [fetch_pc EXCEPT ![t] = "done",
                                            ![Head(crawl_sem_waiters)] = "fetching"]
    /\ UNCHANGED <<pages, crawler_max_concurrent_requests, crawler_running_loop,
                   crawl_pc, page_index, fetches, all_results,
                   successful_results, augmented_pages>>
    /\ UNCHANGED notCrawlVars

PageDone_NoAwait ==
    /\ crawl_pc = "crawling"
    /\ \A u \in DOMAIN fetch_pc : fetch_pc[u] # "created"
    /\ all_results' = all_results \o page_results
    /\ NextPage(page_index + 1)
    /\ UNCHANGED <<pages, crawler_max_concurrent_requests, crawler_running_loop,
                   crawl_sem_value, crawl_sem_waiters, fetches,
                   successful_results, augmented_pages>>
    /\ UNCHANGED notCrawlVars

\* results = await asyncio.gather(*tasks); all_results.extend(results)
PageDone ==
    /\ crawl_pc = "crawling"
    /\ \A u \in DOMAIN fetch_pc : fetch_pc[u] = "done"
    /\ all_results' = all_results \o page_results
    /\ NextPage(page_index + 1)
    /\ UNCHANGED <<pages, crawler_max_concurrent_requests, crawler_running_loop,
                   crawl_sem_value, crawl_sem_waiters, fetches,
                   successful_results, augmented_pages>>
    /\ UNCHANGED notCrawlVars

\* successful_results = [...]; return successful_results
CrawlerReturn ==
    /\ crawl_pc = "batch_done"
    /\ successful_results' = NotNone(all_results)
    /\ crawl_pc' = "returned"
    /\ UNCHANGED <<pages, crawler_max_concurrent_requests, crawler_running_loop,
                   page_index, fetch_pc, fetch_result, page_results,
                   crawl_sem_value, crawl_sem_waiters, fetches, all_results,
                   augmented_pages>>
    /\ UNCHANGED notCrawlVars

\* crawl step: augmented_pages = list(set(documents.copy() + child_pages))
CrawlStepReturn ==
    /\ crawl_pc = "returned"
    /\ augmented_pages' = ListOfSet(pages \o successful_results)
    /\ crawl_pc' = "step_done"
    /\ UNCHANGED <<pages, crawler_max_concurrent_requests, crawler_running_loop,
                   page_index, fetch_pc, fetch_result, page_results,
                   crawl_sem_value, crawl_sem_waiters, fetches, all_results,
                   successful_results>>
    /\ UNCHANGED notCrawlVars

NextCrawl ==
    \/ CrawlerCall
    \/ \E t \in DOMAIN fetch_pc : CrawlTaskStart(t)
    \/ \E t \in DOMAIN fetch_pc : \E outcome \in FetchOutcomes : FetchReturns(t, outcome)
    \/ \E t \in DOMAIN fetch_pc : FetchRaises(t)
    \/ \E t \in DOMAIN fetch_pc : \E document_id \in IdPool : CrawlPacingDone(t, document_id)
    \/ PageDone
    \/ CrawlerReturn
    \/ CrawlStepReturn

\* --------------------------------------------- InstructDataset.from_samples
\* A ratio is a number of quarters: 1 - val - test and n * ratio are then exact
\* in double arithmetic, and the integer computation is the float computation.
Ratios == 0..4

SampleValues == {"a", "b", "c"}

\* int(n * ratio): int() truncates toward zero
IntOfProduct(n, quarters) ==
    IF quarters >= 0 THEN (n * quarters) \div 4
    ELSE -((n * (-quarters)) \div 4)

Slice_Inclusive(s, start, stop) ==
    LET n == Len(s)
        Clamp(k) == IF k < 0 THEN (IF n + k < 0 THEN 0 ELSE n + k)
                    ELSE IF k > n THEN n ELSE k
        lo == Clamp(start)
        hi == Clamp(stop + 1)
    IN  IF lo >= hi THEN <<>> ELSE SubSeq(s, lo + 1, hi)

\* s[start:stop] of a list: a negative index counts from the end, and indexes
\* are clamped to the list
Slice(s, start, stop) ==
    LET n == Len(s)
        Clamp(k) == IF k < 0 THEN (IF n + k < 0 THEN 0 ELSE n + k)
                    ELSE IF k > n THEN n ELSE k
        lo == Clamp(start)
        hi == Clamp(stop)
    IN  IF lo >= hi THEN <<>> ELSE SubSeq(s, lo + 1, hi)

\* The generator of the random module. Its state is one of RngStates and one
\* draw moves it as a linear congruential generator does; this stands for the
\* Mersenne Twister, of which the model keeps that seed() sets the whole state
\* from its argument and that a draw is a function of the state.
RngStates == 0..7
NextRng(st) == (5 * st + 3) % 8

Seeded_Ignored(sd, st) == st

\* if seed is not None: random.seed(seed)
Seeded(sd, st) == IF sd # None THEN sd[1] % 8 ELSE st

RECURSIVE ShuffleFrom(_, _, _)
\* random.shuffle: for i in reversed(range(1, len(x))):
\*                     j = randbelow(i + 1); x[i], x[j] = x[j], x[i]
\* (i is the 1-based position, so j is drawn below i)
ShuffleFrom(x, i, st) ==
    IF i < 2 THEN [list |-> x, state |-> st]
    ELSE LET drawn == NextRng(st)
             j == (drawn % i) + 1
         IN  ShuffleFrom([x EXCEPT ![i] = x[j], ![j] = x[i]], i - 1, drawn)

shuffle(x, st) == ShuffleFrom(x, Len(x), st)

\* int(len(shuffled_samples) * (1 - val_split_ratio - test_split_ratio))
TrainCut(n, val, test) == IntOfProduct(n, 4 - val - test)

TestCut_Independent(n, val, test) == IntOfProduct(n, test)

\* int(len(shuffled_samples) * (1 - test_split_ratio))
TestCut(n, val, test) == IntOfProduct(n, 4 - test)

SplitsNonEmpty_TrainOnly(train_samples, val_samples, test_samples) ==
    Len(train_samples) > 0

\* the three assert len(...) > 0
SplitsNonEmpty(train_samples, val_samples, test_samples) ==
    /\ Len(train_samples) > 0
    /\ Len(val_samples) > 0
    /\ Len(test_samples) > 0

\* InstructDataset.from_samples: what it returns, or its locals when an assert
\* raises, and the state it leaves the generator in
from_samples(smpls, val, test, sd, st) ==
    LET shuffled == shuffle(smpls, Seeded(sd, st))
        n == Len(shuffled.list)
        train_samples == Slice(shuffled.list, 0, TrainCut(n, val, test))
        val_samples == Slice(shuffled.list, TrainCut(n, val, test),
                             TestCut(n, val, test))
        test_samples == Slice(shuffled.list, TestCut(n, val, test), n)
    IN  [raised |-> ~SplitsNonEmpty(train_samples, val_samples, test_samples),
         train |-> train_samples,
         validation |-> val_samples,
         test |-> test_samples,
         shuffled_samples |-> shuffled.list,
         state |-> shuffled.state]

InitSplit ==
    /\ samples \in SeqsUpTo(SampleValues, MaxSamples)
    /\ val_split_ratio \in Ratios
    /\ test_split_ratio \in Ratios
    /\ seed \in {None, Some(DatasetSeed), Some(7)}
    /\ rng_state \in RngStates
    /\ datasets = <<>>

IdleSplit ==
    /\ samples = <<>>
    /\ val_split_ratio = 0
    /\ test_split_ratio = 0
    /\ seed = None
    /\ rng_state = 0
    /\ datasets = <<>>

SamplesAfterCall_InPlace(smpls, shuffled_samples) == shuffled_samples

\* shuffled_samples = samples.copy(): random.shuffle reorders the copy, and
\* the caller's list is after the call what it was before
SamplesAfterCall(smpls, shuffled_samples) == smpls

\* one call InstructDataset.from_samples(samples, val_split_ratio, test_split_ratio, seed)
FromSamplesCall ==
    /\ Len(datasets) < 2
    /\ LET dataset == from_samples(samples, val_split_ratio, test_split_ratio,
                                   seed, rng_state)
       IN  /\ datasets' = Append(datasets,
                                 [raised |-> dataset.raised,
                                  train |-> dataset.train,
                                  validation |-> dataset.validation,
                                  test |-> dataset.test])
           /\ rng_state' = dataset.state
           /\ samples' = SamplesAfterCall(samples, dataset.shuffled_samples)
    /\ UNCHANGED <<val_split_ratio, test_split_ratio, seed>>
    /\ UNCHANGED notSplitVars

\* any other use of the random module, before or between the calls
RandomUse ==
    /\ Len(datasets) < 2
    /\ rng_state' = NextRng(rng_state)
    /\ UNCHANGED <<samples, val_split_ratio, test_split_ratio, seed, datasets>>
    /\ UNCHANGED notSplitVars

NextSplit ==
    \/ FromSamplesCall
    \/ RandomUse

\* ------------------------------------------ SummarizationDatasetGenerator
\* A document is [id, content, content_quality_score, summary]; content is
\* len(document.content), and documents of equal length have equal content.
GeneratorDocument(i, len_content, score) ==
    [id |-> i, content |-> len_content, content_quality_score |-> score,
     summary |-> None]

PreGenerationFilters_AcceptAll(document, min_length, min_score) == TRUE

\* pre_generation_filters
PreGenerationFilters(document, min_length, min_score) ==
    /\ document.content > min_length
    /\ \/ document.content_quality_score = None
       \/ document.content_quality_score[1] >= min_score

PostGenerationFilters_Inclusive(document, max_characters, factor) ==
    /\ document.summary # None
    /\ Len(document.summary[1]) <= max_characters * factor

\* post_generation_filters; int(max_characters * factor) is the product, both
\* being integers (the gen_sum step leaves the factor at its default)
PostGenerationFilters(document, max_characters, factor) ==
    /\ document.summary # None
    /\ Len(document.summary[1]) < max_characters * factor

\* doc.summary values the SummarizationAgent leaves on a copy in one pass:
\* None when both phases failed for it
Summaries(is_mock) ==
    IF is_mock THEN {MockValue("summarization")}
    ELSE {None, Some(""), Some("tl;dr"), Some("tl;dr!")}

Orders(n) == {f \in [1..n -> 1..n] : \A a, b \in 1..n : f[a] = f[b] => a = b}

\* summarization_agent(copy.deepcopy(documents)): every copy once, in the
\* order the engine returns them, with the summary the engine left on it
\* (a copy it could not summarize keeps the summary it came with)
SummarizationAgentResults(docs, is_mock) ==
    {[k \in 1..Len(docs) |->
        [docs[order[k]] EXCEPT !.summary =
            IF summary[order[k]] = None THEN @ ELSE summary[order[k]]]] :
        order \in Orders(Len(docs)),
        summary \in [1..Len(docs) -> Summaries(is_mock)]}

DocumentsAfterPass_Shared(docs, summarized) ==
    [k \in 1..Len(docs) |->
        (CHOOSE d \in Range(summarized) : d.id = docs[k].id)]

\* copied_documents = copy.deepcopy(documents): the agent works on the copies,
\* and the documents of the loop are after the pass what they were before
DocumentsAfterPass(docs, summarized) == docs

Extend_Overwrite(augmented, valid) == valid

\* augmented_documents.extend(valid_summarized_documents)
Extend(augmented, valid) == augmented \o valid

InstructDatasetSample_FixedAnswer(document) ==
    [instruction |-> document.content, answer |-> "summary"]

\* __to_instruct_dataset_sample, for a document whose summary is not None
InstructDatasetSample(document) ==
    [instruction |-> document.content, answer |-> document.summary[1]]

InitGenerator ==
    /\ generate_pc = "idle"
    /\ min_document_length = DefaultMinDocumentLength
    /\ min_quality_score = DefaultMinQualityScore
    /\ summarization_max_characters \in {3, DefaultMaxCharacters}
    /\ generator_mock \in BOOLEAN
    /\ augmentation_loops \in 0..MaxLoops
    /\ \E n \in 0..MaxDocuments :
         /\ n * augmentation_loops <= MaxCopies
         /\ \E len_content \in [1..n -> {min_document_length - 1, min_document_length,
                                        min_document_length + 1}] :
            \E score \in [1..n -> {None, Some(2), Some(min_quality_score)}] :
              generator_documents =
                [i \in 1..n |-> GeneratorDocument(i, len_content[i], score[i])]
    /\ generator_val_split_ratio = 1
    /\ generator_test_split_ratio \in {1, 2}
    /\ filtered_documents = <<>>
    /\ loop_i = 0
    /\ summarized_documents = <<>>
    /\ augmented_documents = <<>>
    /\ filtered_summarized_documents = <<>>
    /\ instruct_dataset_samples = <<>>
    /\ generator_rng_state = 0
    /\ instruct_dataset = None

IdleGenerator ==
    /\ generate_pc = "idle"
    /\ min_document_length = DefaultMinDocumentLength
    /\ min_quality_score = DefaultMinQualityScore
    /\ summarization_max_characters = DefaultMaxCharacters
    /\ generator_mock = FALSE
    /\ augmentation_loops = 0
    /\ generator_documents = <<>>
    /\ generator_val_split_ratio = 0
    /\ generator_test_split_ratio = 0
    /\ filtered_documents = <<>>
    /\ loop_i = 0
    /\ summarized_documents = <<>>
    /\ augmented_documents = <<>>
    /\ filtered_summarized_documents = <<>>
    /\ instruct_dataset_samples = <<>>
    /\ generator_rng_state = 0
    /\ instruct_dataset = None

\* generate, up to the first pass of __augmented_summarization_loop:
\* filter_documents(self.pre_generation_filters, documents)
GenerateCall ==
    /\ generate_pc = "idle"
    /\ generate_pc' = "loop"
    /\ filtered_documents' =
         SelectItems(generator_documents,
                     [d \in Range(generator_documents) |->
                        PreGenerationFilters(d, min_document_length, min_quality_score)])
    /\ loop_i' = 0
    /\ UNCHANGED <<generator_documents, generator_mock, min_document_length,
                   min_quality_score, summarization_max_characters,
                   augmentation_loops, generator_val_split_ratio,
                   generator_test_split_ratio, summarized_documents,
                   augmented_documents, filtered_summarized_documents,
                   instruct_dataset_samples, generator_rng_state, instruct_dataset>>
    /\ UNCHANGED notGeneratorVars

\* one pass of for i in range(loops); summarized is what
\* summarization_agent(copied_documents) returned
SummarizationPass(summarized) ==
    /\ generate_pc = "loop"
    /\ loop_i < augmentation_loops
    /\ LET valid_summarized_documents ==
             SelectItems(summarized,
                         [d \in Range(summarized) |-> d.summary # None])
       IN  augmented_documents' = Extend(augmented_documents, valid_summarized_documents)
    /\ summarized_documents' = Append(summarized_documents, summarized)
    /\ filtered_documents' = DocumentsAfterPass(filtered_documents, summarized)
    /\ loop_i' = loop_i + 1
    /\ UNCHANGED <<generate_pc, generator_documents, generator_mock,
                   min_document_length, min_quality_score,
                   summarization_max_characters, augmentation_loops,
                   generator_val_split_ratio, generator_test_split_ratio,
                   filtered_summarized_documents,
                   instruct_dataset_samples, generator_rng_state, instruct_dataset>>
    /\ UNCHANGED notGeneratorVars

\* generate, after the last pass: the post-generation filters, the samples
\* and InstructDataset.from_samples(..., seed=42)
GenerateReturn ==
    /\ generate_pc = "loop"
    /\ loop_i = augmentation_loops
    /\ LET kept == SelectItems(augmented_documents,
                               [d \in Range(augmented_documents) |->
                                  PostGenerationFilters(d, summarization_max_characters,
                                                        MaxSummaryLengthFactor)])
           dataset_samples == [k \in 1..Len(kept) |-> InstructDatasetSample(kept[k])]
           dataset == from_samples(dataset_samples, generator_val_split_ratio,
                                   generator_test_split_ratio, Some(DatasetSeed),
                                   generator_rng_state)
       IN  /\ filtered_summarized_documents' = kept
           /\ IF \E k \in 1..Len(kept) : kept[k].summary = None
              THEN \* assert document.summary is not None: AssertionError
                   /\ generate_pc' = "assertion_error"
                   /\ UNCHANGED <<instruct_dataset_samples, generator_rng_state,
                                  instruct_dataset>>
              ELSE /\ instruct_dataset_samples' = dataset_samples
                   /\ generator_rng_state' = dataset.state
                   /\ generate_pc' = IF dataset.raised THEN "raised" ELSE "returned"
                   /\ instruct_dataset' =
                        IF dataset.raised THEN None
                        ELSE Some([train |-> dataset.train,
                                   validation |-> dataset.validation,
                                   test |-> dataset.test])
    /\ UNCHANGED <<generator_documents, generator_mock, min_document_length,
                   min_quality_score, summarization_max_characters,
                   augmentation_loops, generator_val_split_ratio,
                   generator_test_split_ratio, filtered_documents, loop_i,
                   summarized_documents, augmented_documents>>
    /\ UNCHANGED notGeneratorVars

NextGenerator ==
    \/ GenerateCall
    \/ \E summarized \in SummarizationAgentResults(filtered_documents, generator_mock) :
         SummarizationPass(summarized)
    \/ GenerateReturn

\* ------------------------------------------------------- filter_documents
\* the filters the generator builds in __init__, by name
FilterNames == {"min_length", "min_score", "post"}

\* document_filter(document) for the filter of that name, with the default
\* minimum length and score and a limit of 3 characters times the factor
FilterHolds(name, document) ==
    IF name = "min_length"
    THEN document.content > DefaultMinDocumentLength
    ELSE IF name = "min_score"
         THEN \/ document.content_quality_score = None
              \/ document.content_quality_score[1] >= DefaultMinQualityScore
         ELSE PostGenerationFilters(document, 3, MaxSummaryLengthFactor)

FilterStep_KeepAll(docs, document_filter) == docs

\* documents = [document for document in documents if document_filter(document)]
FilterStep(docs, document_filter) ==
    SelectItems(docs,
                [d \in Range(docs) |-> FilterHolds(document_filter, d)])

RECURSIVE filter_documents(_, _)
\* for document_filter in filters: documents = [...]; return documents
filter_documents(filter_list, docs) ==
    IF filter_list = <<>> THEN docs
    ELSE filter_documents(Tail(filter_list), FilterStep(docs, Head(filter_list)))

InitFilter ==
    /\ filter_pc = "idle"
    /\ filters \in SeqsUpTo(FilterNames, MaxFilters)
    /\ \E n \in 0..MaxDocuments :
         \E len_content \in [1..n -> {DefaultMinDocumentLength,
                                      DefaultMinDocumentLength + 1}] :
         \E score \in [1..n -> {None, Some(2)}] :
         \E summary \in [1..n -> {None, Some("tl;dr"), Some("tl;dr!")}] :
            filter_input =
              [i \in 1..n |->
                 [GeneratorDocument(i, len_content[i], score[i])
                    EXCEPT !.summary = summary[i]]]
    /\ filter_output = <<>>

IdleFilter ==
    /\ filter_pc = "idle"
    /\ filters = <<>>
    /\ filter_input = <<>>
    /\ filter_output = <<>>

\* self.filter_documents(filters, documents)
FilterDocumentsCall ==
    /\ filter_pc = "idle"
    /\ filter_pc' = "returned"
    /\ filter_output' = filter_documents(filters, filter_input)
    /\ UNCHANGED <<filters, filter_input>>
    /\ UNCHANGED notFilterVars

NextFilter == FilterDocumentsCall

\* ---------------------------------------------------------- specifications
Init == InitEngine /\ IdleHeuristic /\ IdleCrawl /\ IdleScoring /\ IdleSplit /\ IdleGenerator /\ IdleFilter
Next == NextEngine
Spec == Init /\ [][Next]_vars

\* The coroutine of the batch call and the tasks it created run whenever they
\* can (the event loop runs every ready task and every sleep ends), and every
\* model call that was started returns or raises.
EngineFairness ==
    /\ WF_vars(AgentCall \/ Phase1Done \/ Phase2Done \/ AgentReturn)
    /\ WF_vars(\E i \in DOMAIN task_pc : TaskStart(i) \/ PacingDone(i))
    /\ WF_vars(\E i \in DOMAIN task_pc :
                  CallRaises(i) \/ \E reply \in Replies(agent) : CallReturns(i, reply))
SpecTermination == Init /\ [][Next]_vars /\ EngineFairness

InitH == InitHeuristic /\ IdleEngine /\ IdleCrawl /\ IdleScoring /\ IdleSplit /\ IdleGenerator /\ IdleFilter
NextH == HeuristicScore
SpecHeuristic == InitH /\ [][NextH]_vars

InitC == InitCrawl /\ IdleEngine /\ IdleHeuristic /\ IdleScoring /\ IdleSplit /\ IdleGenerator /\ IdleFilter
NextC == NextCrawl
SpecCrawl == InitC /\ [][NextC]_vars

InitQ == InitHeuristic /\ InitScoring /\ IdleEngine /\ IdleCrawl /\ IdleSplit /\ IdleGenerator /\ IdleFilter
NextQ == NextScoring
SpecScoring == InitQ /\ [][NextQ]_vars

InitS == InitSplit /\ IdleEngine /\ IdleHeuristic /\ IdleCrawl /\ IdleScoring /\ IdleGenerator /\ IdleFilter
NextS == NextSplit
SpecSplit == InitS /\ [][NextS]_vars

InitG == InitGenerator /\ IdleEngine /\ IdleHeuristic /\ IdleCrawl /\ IdleScoring /\ IdleSplit /\ IdleFilter
NextG == NextGenerator
SpecGenerator == InitG /\ [][NextG]_vars

InitF == InitFilter /\ IdleEngine /\ IdleHeuristic /\ IdleCrawl /\ IdleScoring /\ IdleSplit /\ IdleGenerator
NextF == NextFilter
SpecFilter == InitF /\ [][NextF]_vars

\* ------------------------------------------------------------------ claims
Summarizing == agent \in {"summarization", "quality"}

InFlight == {i \in DOMAIN task_pc : task_pc[i] \in {"calling", "pacing"}}

\* C1: in every state of a batch call the number of items whose model call or
\* following pacing sleep is in progress is at most max_concurrent_requests.
C1_AtMostCInFlight == Cardinality(InFlight) <= max_concurrent_requests

\* C1 witness: every slot is taken and another task waits at the semaphore
C1_Witness_FullWithWaiter ==
    /\ Cardinality(InFlight) = max_concurrent_requests
    /\ sem_waiters # <<>>

\* an attempt left the output field unset: it raised, had no choices, or
\* its content was rejected
AttemptFailed(a) == a.raised \/ ProcessReply(agent, None, a.reply) = None

AlwaysFails ==
    \A i \in Range(documents) :
        Len(attempts[i]) = 2 /\ AttemptFailed(attempts[i][1]) /\ AttemptFailed(attempts[i][2])

FailsOnceThenSucceeds ==
    \A i \in Range(documents) :
        Len(attempts[i]) = 2 /\ AttemptFailed(attempts[i][1]) /\ ~AttemptFailed(attempts[i][2])

\* C2 (as claimed): a batch call of SummarizationAgent or QualityScoreAgent
\* returns only items whose output field is set, and returns the empty list
\* after exactly two phases when every attempt failed.
C2_ReturnsOnlyEnriched ==
    (Summarizing /\ call_pc = "returned") =>
        /\ \A k \in 1..Len(returned) : field[returned[k]] # None
        /\ (AlwaysFails /\ documents # <<>>) => (returned = <<>> /\ phases_run = 2)

\* C3: when every item fails once and then succeeds, the call returns all N
\* items, each once, with the output field set by the phase-2 reply.
C3_TransientFailuresRecovered ==
    (Summarizing /\ call_pc = "returned" /\ FailsOnceThenSucceeds) =>
        /\ Len(returned) = Len(documents)
        /\ Range(returned) = Range(documents)
        /\ \A i \in Range(documents) :
              /\ field[i] # None
              /\ field[i] = ProcessReply(agent, None, attempts[i][2].reply)
        /\ documents # <<>> => phases_run = 2

C3_Witness_AllRecovered ==
    /\ Summarizing /\ call_pc = "returned" /\ FailsOnceThenSucceeds
    /\ Len(documents) >= 2

\* C4 (as claimed): no call of SummarizationAgent or QualityScoreAgent ends by
\* raising, whatever the per-item failures; it returns a list of input items
\* (one item for a single-Document input).
C4_NeverRaises ==
    Summarizing =>
        /\ call_pc # "raised"
        /\ call_pc = "returned" =>
              /\ Range(returned) \subseteq Range(documents)
              /\ is_single_document => Len(returned) = 1

\* C4, the part the code keeps: a call made with no event loop running never
\* raises, whatever the replies
C4_NoLoopNeverRaises ==
    (Summarizing /\ ~running_loop) => call_pc # "raised"

\* C5: with mock enabled a call returns its K items, each with the fixed
\* placeholder, makes no model call and no pacing sleep, and runs one phase.
C5_MockReturnsPlaceholders ==
    mock =>
        /\ \A i \in Range(documents) : attempts[i] = <<>> /\ paced[i] = <<>>
        /\ InFlight = {}
        /\ phases_run <= 1
        /\ call_pc = "returned" =>
              /\ Len(returned) = Len(documents)
              /\ Range(returned) = Range(documents)
              /\ \A i \in Range(documents) :
                    field[i] = IF agent = "quality" THEN Some(5)
                               ELSE Some("This is a mock summary")
              /\ agent = "contextual" =>
                    /\ Len(contextual_chunks) = Len(documents)
                    /\ \A k \in 1..Len(documents) :
                          contextual_chunks[k] =
                              "This is a mock summary\n\n" \o Chunk(returned[k])

C5_Witness_MockReturned ==
    mock /\ call_pc = "returned" /\ Len(documents) >= 2

\* C6 (as claimed): a call completes and returns in both calling contexts,
\* so a call that was made from inside a running event loop has not raised.
C6_CallableInsideRunningLoop ==
    (running_loop /\ call_pc # "idle") => call_pc = "returned"

RECURSIVE OkSlotsFrom(_, _)
\* the <<page, position>> pairs whose fetch succeeded, in page and list order
OkSlotsFrom(k, t) ==
    IF k > Len(pages) THEN <<>>
    ELSE IF t > Len(pages[k].child_urls) THEN OkSlotsFrom(k + 1, 1)
    ELSE (IF fetches[k][t] = <<"ok">> THEN << <<k, t>> >> ELSE <<>>)
         \o OkSlotsFrom(k, t + 1)

OkSlots == OkSlotsFrom(1, 1)

FailedSlots(k) ==
    {t \in 1..Len(pages[k].child_urls) :
        fetches[k][t] # <<>> /\ fetches[k][t] # <<"ok">>}

CrawlerReturned == crawl_pc \in {"returned", "step_done"}

\* C8 (as claimed): a failed fetch (unsuccessful result, no markdown, or an
\* exception raised by the fetch) is not retried, gives no document, and the
\* call still crawls and returns the documents of the other URLs and pages:
\* a call made with no event loop running never ends with an exception.
C8_FailedFetchIsolated ==
    ~crawler_running_loop =>
        /\ crawl_pc # "raised"
        /\ \A k \in 1..Len(pages) : \A t \in 1..Len(pages[k].child_urls) :
              Len(fetches[k][t]) <= 1
        /\ CrawlerReturned => Len(successful_results) = Len(OkSlots)

\* C9: the crawler returns one new Document per successful fetch and none per
\* failed one, in page and list order; each has the parent's metadata as
\* parent_metadata, the fetched URL as metadata.url, and id = metadata.id.
C9_OneDocumentPerSuccessfulFetch ==
    CrawlerReturned =>
        /\ \A k \in 1..Len(pages) : \A t \in 1..Len(pages[k].child_urls) :
              Len(fetches[k][t]) = 1
        /\ Len(successful_results) = Len(OkSlots)
        /\ \A j \in 1..Len(OkSlots) :
              LET k == OkSlots[j][1]
                  t == OkSlots[j][2]
                  d == successful_results[j]
              IN  /\ d.parent_metadata = <<pages[k].metadata>>
                  /\ d.metadata.url = pages[k].child_urls[t]
                  /\ d.id = d.metadata.id

\* C9 witness: a page with 3 child URLs, one failed fetch, 2 documents returned
C9_Witness_ThreeUrlsOneFailure ==
    /\ CrawlerReturned
    /\ Len(pages) = 1
    /\ Len(pages[1].child_urls) = 3
    /\ Cardinality(FailedSlots(1)) = 1
    /\ Len(successful_results) = 2

Ids(docs) == {d.id : d \in docs}

\* C10: the crawl step returns the originals unioned with the crawled
\* children: every input id and every crawled child's id is in the output, the
\* output holds nothing else, and no two output documents have the same id.
C10_UnionWithoutDuplicateIds ==
    crawl_pc = "step_done" =>
        /\ Ids(Range(pages)) \subseteq Ids(augmented_pages)
        /\ Ids(Range(successful_results)) \subseteq Ids(augmented_pages)
        /\ augmented_pages \subseteq Range(pages) \cup Range(successful_results)
        /\ \A d1, d2 \in augmented_pages : d1.id = d2.id => d1 = d2

\* C10 witness: the step returned after a crawled child drew the id of an
\* input document, next to a child with an id of its own
C10_Witness_IdCollision ==
    /\ crawl_pc = "step_done"
    /\ \E j \in 1..Len(successful_results) :
          successful_results[j].id \in Ids(Range(pages))
    /\ \E j \in 1..Len(successful_results) :
          successful_results[j].id \notin Ids(Range(pages))

Count(v, s) == Cardinality({k \in 1..Len(s) : s[k] = v})

IsPermutation(a, b) ==
    /\ Len(a) = Len(b)
    /\ \A v \in Range(a) \cup Range(b) : Count(v, a) = Count(v, b)

\* C11: a document passes the pre-generation filters iff its content length
\* is at least the minimum and its score is unset or at least the minimum
\* score, so a document of exactly the minimum length is kept.
C11_KeepsMinimumLength ==
    generate_pc # "idle" =>
        filtered_documents =
            SelectItems(generator_documents,
                        [d \in Range(generator_documents) |->
                           /\ d.content >= min_document_length
                           /\ \/ d.content_quality_score = None
                              \/ d.content_quality_score[1] >= min_quality_score])

AlwaysSucceeds ==
    \A p \in 1..Len(summarized_documents) :
        \A d \in Range(summarized_documents[p]) : d.summary # None

\* C12: with a summarizer that always succeeds, after i passes over the F
\* documents that passed the pre-filter the loop has accumulated i x F
\* summarized documents, i copies of each, hence L x F after the L passes.
C12_AccumulatesLoopsTimesFiltered ==
    (generate_pc # "idle" /\ AlwaysSucceeds) =>
        /\ Len(augmented_documents) = loop_i * Len(filtered_documents)
        /\ \A d \in Range(filtered_documents) :
             Cardinality({k \in 1..Len(augmented_documents) :
                            augmented_documents[k].id = d.id}) = loop_i
        /\ generate_pc \in {"returned", "raised"} =>
             Len(augmented_documents) = augmentation_loops * Len(filtered_documents)

C12_Witness_AllPassesSucceeded ==
    /\ generate_pc \in {"returned", "raised"}
    /\ AlwaysSucceeds
    /\ augmentation_loops = MaxLoops
    /\ Len(filtered_documents) >= 1
    /\ Len(filtered_documents) < Len(generator_documents)
    /\ Len(augmented_documents) = MaxLoops * Len(filtered_documents)

\* C13: for ratios with val + test < 1, from_samples cuts the shuffled list
\* at c1 <= c2 <= n; train, validation and test are consecutive ranges whose
\* lengths sum to n and whose concatenation is a permutation of the input.
C13_SplitsPartitionShuffledList ==
    \A k \in 1..Len(datasets) :
        val_split_ratio + test_split_ratio < 4 =>
            LET n == Len(samples)
                c1 == TrainCut(n, val_split_ratio, test_split_ratio)
                c2 == TestCut(n, val_split_ratio, test_split_ratio)
            IN  /\ 0 <= c1 /\ c1 <= c2 /\ c2 <= n
                /\ Len(datasets[k].train) = c1
                /\ Len(datasets[k].validation) = c2 - c1
                /\ Len(datasets[k].test) = n - c2
                /\ IsPermutation(datasets[k].train \o datasets[k].validation
                                   \o datasets[k].test, samples)

C13_Witness_ThreeSplitsOfDistinctSamples ==
    /\ Len(datasets) >= 1
    /\ ~datasets[1].raised
    /\ Len(samples) = MaxSamples
    /\ Cardinality(Range(samples)) = Len(samples)
    /\ val_split_ratio + test_split_ratio < 4
    /\ datasets[1].train \o datasets[1].validation \o datasets[1].test # samples

\* C14: from_samples raises whenever val + test >= 1 or one of the three
\* partitions is empty; a dataset it returns has no empty split.
C14_RaisesOnEmptySplit ==
    \A k \in 1..Len(datasets) :
        /\ val_split_ratio + test_split_ratio >= 4 => datasets[k].raised
        /\ (\/ datasets[k].train = <<>>
            \/ datasets[k].validation = <<>>
            \/ datasets[k].test = <<>>) => datasets[k].raised
        /\ ~datasets[k].raised =>
             /\ datasets[k].train # <<>>
             /\ datasets[k].validation # <<>>
             /\ datasets[k].test # <<>>

C14_Witness_TwoSamplesRaise ==
    /\ Len(datasets) >= 1
    /\ Len(samples) = 2
    /\ val_split_ratio = 1
    /\ test_split_ratio = 1
    /\ datasets[1].raised
    /\ datasets[1].train # <<>>

\* C15: with a seed, two calls of from_samples on the same list, ratios and
\* seed give the same train, validation and test lists, whatever use of the
\* random module came before or between them.
C15_SeededCallsAgree ==
    (Len(datasets) = 2 /\ seed # None) => datasets[1] = datasets[2]

C15_Witness_TwoSeededCalls ==
    /\ Len(datasets) = 2
    /\ seed = Some(DatasetSeed)
    /\ ~datasets[2].raised
    /\ Cardinality(Range(samples)) = MaxSamples
    /\ datasets[2].train \o datasets[2].validation \o datasets[2].test # samples

\* C16: whenever content_quality_score is set, by the heuristic scorer, by
\* the model-based scorer for any reply, or by mock mode, it is in [0, 1].
C16_ScoreInUnitInterval ==
    content_quality_score # None => content_quality_score[1] \in 0..10

SplitValues(split) == Range(instruct_dataset[1][split])

\* C17 as stated: in the dataset generate returns, no sample occurs in more
\* than one of train, validation and test.
C17_SplitsPairwiseDisjoint ==
    generate_pc = "returned" =>
        /\ SplitValues("train") \cap SplitValues("validation") = {}
        /\ SplitValues("train") \cap SplitValues("test") = {}
        /\ SplitValues("validation") \cap SplitValues("test") = {}

\* C17, amended: in the dataset generate returns, every sample of the list
\* handed to from_samples is in exactly one split, as many times over the
\* three splits as it occurs in that list; the splits are pairwise disjoint
\* when the samples of the list are pairwise different.
C17_EachOccurrenceInOneSplit ==
    generate_pc = "returned" =>
        LET train == instruct_dataset[1].train
            validation == instruct_dataset[1].validation
            test == instruct_dataset[1].test
        IN  /\ IsPermutation(train \o validation \o test, instruct_dataset_samples)
            /\ Cardinality(Range(instruct_dataset_samples))
                   = Len(instruct_dataset_samples) =>
                 /\ Range(train) \cap Range(validation) = {}
                 /\ Range(train) \cap Range(test) = {}
                 /\ Range(validation) \cap Range(test) = {}

C17_Witness_SameSampleInTwoSplits ==
    /\ generate_pc = "returned"
    /\ augmentation_loops >= 2
    /\ SplitValues("train") \cap SplitValues("test") # {}

Invocations(i) ==
    Len(attempts[i]) + (IF task_pc[i] \in {"calling"} THEN 1 ELSE 0)

\* C18: in one batch call the model is invoked at most twice per item, the
\* second time only for an item whose field was unset after phase 1; an
\* item that succeeded in phase 1 is not submitted again, and there are at
\* most two phases.
C18_AtMostTwoInvocations ==
    ~mock =>
        /\ phases_run <= 2
        /\ \A i \in DOMAIN task_pc :
             /\ Invocations(i) <= 2
             /\ Invocations(i) = 2 => AttemptFailed(attempts[i][1])
             /\ (phases_run = 2 /\ task_pc[i] # "none") =>
                  /\ Len(attempts[i]) >= 1
                  /\ AttemptFailed(attempts[i][1])

C18_Witness_OneRetriedOneNot ==
    /\ ~mock
    /\ call_pc = "returned"
    /\ \E i, j \in DOMAIN task_pc :
         /\ Len(attempts[i]) = 2
         /\ Len(attempts[j]) = 1
         /\ ~AttemptFailed(attempts[j][1])

\* the phase-1 task of item i has run to its end
Phase1TaskOver(i) ==
    /\ Len(attempts[i]) >= 1
    /\ attempts[i][1].raised \/ Len(paced[i]) >= 1

\* C19: phase 2 does not start before phase 1 has drained: once the second
\* phase has started, every item's phase-1 task has made its call, paced and
\* left the semaphore.
C19_Phase2AfterPhase1Drained ==
    (~mock /\ phases_run = 2) => \A i \in DOMAIN task_pc : Phase1TaskOver(i)

C19_Witness_Phase2Calling ==
    /\ ~mock
    /\ call_pc = "phase2"
    /\ Cardinality(DOMAIN task_pc) = MaxItems
    /\ \E i, j \in DOMAIN task_pc :
         /\ task_pc[i] = "calling"
         /\ task_pc[j] = "none"
         /\ paced[j] = <<FirstAwaitSeconds>>

RECURSIVE PacesFrom(_, _)
\* the sleeps of the attempts a[k..]: none for a call that raised, the
\* interval of the phase for a call that returned
PacesFrom(a, k) ==
    IF k > Len(a) THEN <<>>
    ELSE (IF a[k].raised THEN <<>>
          ELSE <<IF k = 1 THEN FirstAwaitSeconds ELSE RetryAwaitSeconds>>)
         \o PacesFrom(a, k + 1)

\* C20: in non-mock mode a task whose call returned sleeps the interval of
\* its phase (7 s, then 20 s) while it still holds its slot, so that a
\* waiting task is admitted only when a slot holder has finished pacing; a
\* task whose call raised leaves without pacing.
C20_PacingHoldsTheSlot ==
    ~mock =>
        /\ FirstAwaitSeconds < RetryAwaitSeconds
        /\ \A i \in DOMAIN task_pc :
             /\ task_pc[i] = "pacing" =>
                  /\ ~attempts[i][Len(attempts[i])].raised
                  /\ paced[i] \o <<await_time_seconds>> = PacesFrom(attempts[i], 1)
             /\ task_pc[i] # "pacing" => paced[i] = PacesFrom(attempts[i], 1)
        /\ InPhase =>
             /\ sem_value = max_concurrent_requests - Cardinality(InFlight)
             /\ sem_waiters # <<>> =>
                  Cardinality(InFlight) = max_concurrent_requests

C20_Witness_PacingWhileAnotherWaits ==
    /\ ~mock
    /\ phases_run = 2
    /\ \E i, j \in DOMAIN task_pc :
         /\ task_pc[i] = "pacing"
         /\ task_pc[j] = "waiting"
         /\ attempts[j][1].raised
         /\ paced[j] = <<>>

\* the items of the input list whose output field is set / still unset
SetItems == {i \in Range(documents) : field[i] # None}
UnsetItems == {i \in Range(documents) : field[i] = None}

\* C21 (as claimed): once both phases are over the succeeded count of the final
\* log line is the number of submitted items whose output field is set, the
\* failed count is the number whose field is still unset, and the two add up
\* to the number submitted.
C21_CountsMatchFields ==
    call_pc \in {"return", "returned"} =>
        /\ success_count = Cardinality(SetItems)
        /\ failed_count = Cardinality(UnsetItems)
        /\ success_count + failed_count = Len(documents)

\* a reply the model gave without text: no choices, null content, or ""
EmptyReply(r) == ~r.choices \/ r.content = None \/ r.content = Some("")

\* C22 (as claimed): in SummarizationAgent an item whose latest model call
\* returned a reply with no choices, null content or empty-string content has
\* its summary unset once that reply was processed (and so is retried in
\* phase 2 and never carries an empty summary into the dataset).
C22_EmptyReplyIsFailure ==
    (agent = "summarization" /\ ~mock) =>
        \A i \in Range(documents) :
            (/\ attempts[i] # <<>>
             /\ task_pc[i] = "done"
             /\ ~attempts[i][Len(attempts[i])].raised
             /\ EmptyReply(attempts[i][Len(attempts[i])].reply))
            => field[i] = None

\* C25: a returned call of ContextualSummarizationAgent with K chunks gives K
\* strings, one for each input chunk: blurb, blank line, chunk when the blurb
\* of that chunk was produced in either phase, and the chunk alone when both
\* of its attempts failed.
C25_OneStringPerChunk ==
    (agent = "contextual" /\ call_pc = "returned") =>
        /\ Len(contextual_chunks) = Len(documents)
        /\ IsPermutation(returned, documents)
        /\ \A k \in 1..Len(contextual_chunks) :
              LET i == returned[k]
              IN  /\ field[i] # None =>
                        /\ contextual_chunks[k] = field[i][1] \o "\n\n" \o Chunk(i)
                        /\ mock \/ \E n \in 1..Len(attempts[i]) :
                                      /\ ~attempts[i][n].raised
                                      /\ attempts[i][n].reply.choices
                                      /\ attempts[i][n].reply.content = field[i]
                  /\ field[i] = None =>
                        /\ contextual_chunks[k] = Chunk(i)
                        /\ Len(attempts[i]) = 2
                        /\ AttemptFailed(attempts[i][1])
                        /\ AttemptFailed(attempts[i][2])

\* C25 witness: two chunks, one got its blurb on the retry, the other failed
\* in both phases
C25_Witness_BlurbAndBareChunk ==
    /\ agent = "contextual" /\ call_pc = "returned" /\ ~mock
    /\ Len(documents) = 2
    /\ \E i, j \in Range(documents) :
          /\ field[i] # None /\ Len(attempts[i]) = 2
          /\ field[j] = None /\ Len(attempts[j]) = 2

\* message.content values that are empty, not JSON, or JSON without a numeric
\* "score"
MalformedAnswers ==
    {None, Some(""), Some("not json"), Some("{}"), Some("{\"score\": \"high\"}")}

Malformed(call) ==
    ~call.raised /\ call.reply.choices /\ call.reply.content \in MalformedAnswers

\* C23: after a malformed reply of the model (empty, not JSON, JSON without a
\* numeric score) the document's content_quality_score is still unset, and
\* after the first such reply the document is submitted once more; the second
\* submission is made only for a document the first one left unscored.
C23_MalformedReplyIsFailure ==
    (~quality_mock /\ quality_calls # <<>>) =>
        /\ Malformed(quality_calls[Len(quality_calls)]) =>
              content_quality_score = None
        /\ (Len(quality_calls) = 1 /\ Malformed(quality_calls[1])) =>
              ENABLED (\E call \in ScoreCalls : ModelScoreDocument(call))
        /\ Len(quality_calls) <= 2
        /\ Len(quality_calls) = 2 =>
              (quality_calls[1].raised
                 \/ ProcessReply("quality", None, quality_calls[1].reply) = None)

\* C23 witness: the first reply was not JSON, the retry was scored
C23_Witness_RetriedAfterMalformed ==
    /\ ~quality_mock
    /\ Len(quality_calls) = 2
    /\ Malformed(quality_calls[1])
    /\ content_quality_score = Some(7)

\* C24: a document the heuristic scorer gave a score is not passed to the
\* model-based scorer: no model call is made for it, in mock mode or not, and
\* it keeps the score of the heuristic scorer.
C24_HeuristicScoreIsKept ==
    (heuristic_pc = "scored" /\ HeuristicResult # None) =>
        /\ content_quality_score = HeuristicResult
        /\ quality_calls = <<>>

\* C24 witness: mock scoring is on and the document keeps the heuristic's 0.2
C24_Witness_HeuristicScoredInMockRun ==
    /\ heuristic_pc = "scored"
    /\ quality_mock
    /\ HeuristicResult = Some(2)
    /\ content_quality_score = Some(2)

\* the fetches made for URL u of page k, and the child documents they gave
FetchesOf(k, u) ==
    {t \in 1..Len(pages[k].child_urls) :
        pages[k].child_urls[t] = u /\ fetches[k][t] # <<>>}

ChildrenOf(k, u) ==
    {n \in 1..Len(successful_results) :
        /\ successful_results[n].parent_metadata = Some(pages[k].metadata)
        /\ successful_results[n].metadata.url = u}

\* C26 (as claimed): when the crawler has returned, each distinct URL of a
\* page's child_urls was fetched exactly once, however often it is listed, and
\* gave at most one child document.
C26_OneFetchPerDistinctUrl ==
    crawl_pc \in {"returned", "step_done"} =>
        \A k \in 1..Len(pages) : \A u \in Range(pages[k].child_urls) :
            /\ Cardinality(FetchesOf(k, u)) = 1
            /\ Cardinality(ChildrenOf(k, u)) <= 1

\* the tasks that hold a slot of the crawler's semaphore
CrawlInFlight == {t \in DOMAIN fetch_pc : fetch_pc[t] \in {"fetching", "pacing"}}

\* C27: at most max_concurrent_requests tasks of a crawl batch are fetching or
\* in the 0.5 s sleep after their fetch; a task in that sleep still holds its
\* slot, whatever its fetch gave, so the free slots are the maximum minus the
\* tasks fetching or sleeping, and a task waits only while no slot is free.
C27_FetchHoldsSlotThroughPacing ==
    /\ Cardinality(CrawlInFlight) <= crawler_max_concurrent_requests
    /\ crawl_pc \in {"crawling", "batch_done", "returned", "step_done"} =>
          /\ crawl_sem_value =
                crawler_max_concurrent_requests - Cardinality(CrawlInFlight)
          /\ crawl_sem_waiters # <<>> => crawl_sem_value = 0
    /\ \A t \in DOMAIN fetch_pc :
          /\ fetch_pc[t] = "pacing" <=> fetch_result[t] # None
          /\ fetch_pc[t] = "pacing" => fetch_result[t][1] \in FetchOutcomes
          /\ fetch_pc[t] = "waiting" <=> t \in Range(crawl_sem_waiters)

\* C27 witness: every slot is held by a task sleeping after a fetch that did
\* not succeed, and another task waits for a slot
C27_Witness_FailedFetchPacingOthersWait ==
    /\ crawl_pc = "crawling"
    /\ crawl_sem_waiters # <<>>
    /\ \A t \in CrawlInFlight :
          fetch_pc[t] = "pacing" /\ fetch_result[t] # Some("ok")
    /\ Cardinality(CrawlInFlight) = crawler_max_concurrent_requests

\* the input document a copy was made of
InputOf(d) == CHOOSE g \in Range(generator_documents) : g.id = d.id

\* C28: generate runs its stages in order: nothing is summarized before the
\* pre-filter ran, every document of every summarization pass is an input
\* document that is longer than the minimum and has no score or a score of at
\* least the minimum, the passes are made one after the other, and the
\* post-filter, the samples and the dataset exist only after the last pass.
C28_LinearPipeline ==
    /\ generate_pc = "idle" =>
          filtered_documents = <<>> /\ summarized_documents = <<>>
    /\ Len(summarized_documents) = loop_i
    /\ loop_i <= augmentation_loops
    /\ \A p \in 1..Len(summarized_documents) :
          \A d \in Range(summarized_documents[p]) :
              /\ \E g \in Range(generator_documents) : g.id = d.id
              /\ InputOf(d).content > min_document_length
              /\ \/ InputOf(d).content_quality_score = None
                 \/ InputOf(d).content_quality_score[1] >= min_quality_score
    /\ generate_pc \in {"idle", "loop"} =>
          /\ filtered_summarized_documents = <<>>
          /\ instruct_dataset_samples = <<>>
          /\ instruct_dataset = None
    /\ generate_pc \in {"returned", "raised"} => loop_i = augmentation_loops

\* C28 witness: two passes were made and generate is over, with one input
\* document kept by the pre-filter and one dropped
C28_Witness_TwoPassesOneDocumentDropped ==
    /\ generate_pc \in {"returned", "raised"}
    /\ Len(summarized_documents) = 2
    /\ Len(generator_documents) = 2
    /\ Len(filtered_documents) = 1

RECURSIVE ValidOfPasses(_)
\* the documents with a summary of each pass, pass after pass
ValidOfPasses(passes) ==
    IF passes = <<>> THEN <<>>
    ELSE SelectItems(Head(passes),
                     [d \in Range(Head(passes)) |-> d.summary # None])
         \o ValidOfPasses(Tail(passes))

\* C29: the passes work on copies: the pre-filtered documents are input
\* documents as they were given (no summary), before and after every pass;
\* the documents of a pass differ from them in the summary only; and what a
\* pass added to the augmented documents stays as that pass left it.
C29_PassesWorkOnCopies ==
    /\ \A k \in 1..Len(filtered_documents) :
          /\ filtered_documents[k] \in Range(generator_documents)
          /\ filtered_documents[k].summary = None
    /\ \A p \in 1..Len(summarized_documents) :
          /\ Len(summarized_documents[p]) = Len(filtered_documents)
          /\ \A d \in Range(summarized_documents[p]) :
                [d EXCEPT !.summary = None] \in Range(filtered_documents)
    /\ augmented_documents = ValidOfPasses(summarized_documents)

\* C29 witness: a document was summarized in the first pass and could not be
\* summarized in the second
C29_Witness_SummarizedThenFailed ==
    /\ generate_pc \in {"returned", "raised"}
    /\ Len(summarized_documents) = 2
    /\ \E a \in Range(summarized_documents[1]) :
       \E b \in Range(summarized_documents[2]) :
          a.id = b.id /\ a.summary = Some("tl;dr") /\ b.summary = None

Reordered(filter_list, order) ==
    [k \in 1..Len(filter_list) |-> filter_list[order[k]]]

\* C31: filter_documents returns, in input order, exactly the documents for
\* which every filter of the list holds; every reordering of the list gives
\* the same result; and the empty list gives the input as it is.
C31_FilterIsConjunction ==
    filter_pc = "returned" =>
        /\ filter_output =
              SelectItems(filter_input,
                  [d \in Range(filter_input) |->
                      \A k \in 1..Len(filters) : FilterHolds(filters[k], d)])
        /\ \A order \in Orders(Len(filters)) :
              filter_documents(Reordered(filters, order), filter_input) = filter_output
        /\ filters = <<>> => filter_output = filter_input

\* C31 witness: two different filters, each dropping a document the other
\* keeps, so that no document is returned
C31_Witness_TwoFiltersEachDropOne ==
    /\ filter_pc = "returned"
    /\ Len(filters) = 2 /\ filters[1] # filters[2]
    /\ \E d \in Range(filter_input) :
          FilterHolds(filters[1], d) /\ ~FilterHolds(filters[2], d)
    /\ \E d \in Range(filter_input) :
          ~FilterHolds(filters[1], d) /\ FilterHolds(filters[2], d)
    /\ filter_output = <<>>

\* the copies the summarization passes returned
SummarizedCopies ==
    UNION {Range(summarized_documents[p]) : p \in 1..Len(summarized_documents)}

\* C32: generate never ends with the AssertionError of the projection step;
\* every sample it built, and every sample of the dataset it returned, has as
\* instruction the content of a pre-filtered document and as answer the
\* summary a pass left on a copy of that document.
C32_SamplesComeFromSummarizedCopies ==
    /\ generate_pc # "assertion_error"
    /\ \A sample \in Range(instruct_dataset_samples) :
          \E d \in SummarizedCopies :
              /\ d.summary = Some(sample.answer)
              /\ d.content = sample.instruction
              /\ \E f \in Range(filtered_documents) :
                    f.id = d.id /\ f.content = sample.instruction
    /\ generate_pc = "returned" =>
          \A split \in {"train", "validation", "test"} :
              Range(instruct_dataset[1][split]) \subseteq Range(instruct_dataset_samples)

\* C32 witness: the dataset was returned although the summarizer failed for a
\* copy in one of the passes
C32_Witness_DatasetDespiteFailedCopy ==
    /\ generate_pc = "returned"
    /\ \E d \in SummarizedCopies : d.summary = None
    /\ Len(instruct_dataset_samples) >= 3

\* C33: when every model call returns or raises, a batch call ends, by
\* returning or by raising, for every number of items and every limit of at
\* least 1; and when its phases are over every slot of the semaphore is free
\* and no task waits for one.
C33_BatchCallTerminates ==
    /\ <>(call_pc \in {"returned", "raised"})
    /\ [](call_pc \in {"return", "returned"} =>
            /\ sem_value = max_concurrent_requests
            /\ sem_waiters = <<>>
            /\ Drained)

\* C33 witness: more items than slots, two phases, one item lost its slot's
\* call to an exception and one to a reply without choices, and the call
\* returned
C33_Witness_MoreItemsThanSlotsReturned ==
    /\ call_pc = "returned"
    /\ Len(documents) > max_concurrent_requests
    /\ phases_run = 2
    /\ \E i, j \in Range(documents) :
          /\ attempts[i] # <<>> /\ attempts[i][1].raised
          /\ attempts[j] # <<>> /\ ~attempts[j][1].raised
          /\ ~attempts[j][1].reply.choices

NoRepeats(s) == \A a, b \in 1..Len(s) : s[a] = s[b] => a = b

\* C34: the list a batch call of SummarizationAgent or QualityScoreAgent
\* returns holds items of the input list only, each at most once; the items
\* kept after phase 1 and the items submitted to phase 2 have none in common.
C34_ReturnedItemsAreDistinctInputs ==
    Summarizing =>
        /\ call_pc = "phase2" =>
              /\ Range(documents_with) \cap Range(documents_without) = {}
              /\ Range(results) \subseteq Range(documents_without)
              /\ NoRepeats(documents_with) /\ NoRepeats(documents_without)
              /\ NoRepeats(results)
        /\ call_pc \in {"return", "returned"} =>
              /\ Range(documents_with) \subseteq Range(documents)
              /\ NoRepeats(documents_with)
        /\ call_pc = "returned" =>
              /\ Range(returned) \subseteq Range(documents)
              /\ NoRepeats(returned)

\* C34 witness: of two items one was kept after phase 1 and the other came
\* back from phase 2
C34_Witness_OneFromEachPhase ==
    /\ Summarizing /\ call_pc = "returned" /\ ~mock
    /\ Len(returned) = 2
    /\ Len(attempts[returned[1]]) = 1
    /\ Len(attempts[returned[2]]) = 2

C36_KeepsUnsetOrAboveThreshold ==
    step_pc = "filtered" =>
        (StepDocument \in Range(valid_docs) <=>
            \/ content_quality_score = None
            \/ content_quality_score[1] > content_quality_score_threshold)

\* C37: the crawler works on one page at a time: the tasks that exist are the
\* fetches of the current page, every fetch of an earlier page is over, and
\* no fetch of a later page has been made; the pages share the semaphore,
\* whose free slots are the maximum minus the current page's fetches in flight.
C37_PagesCrawledOneAtATime ==
    /\ crawl_pc = "crawling" =>
          /\ page_index \in 1..Len(pages)
          /\ DOMAIN fetch_pc = 1..Len(pages[page_index].child_urls)
          /\ crawl_sem_value + Cardinality(CrawlInFlight) =
                crawler_max_concurrent_requests
    /\ \A k \in 1..Len(pages) : \A t \in 1..Len(pages[k].child_urls) :
          /\ k < page_index =>
                Len(fetches[k][t]) = 1 /\ fetches[k][t][1] \in FetchOutcomes
          /\ k > page_index => fetches[k][t] = <<>>
          /\ (k = page_index /\ crawl_pc = "crawling") =>
                (fetches[k][t] # <<>> <=> fetch_pc[t] \in {"pacing", "done"})

\* C37 witness: the second page is being crawled, with a fetch in flight and
\* another waiting for a slot, after the fetch of the first page
C37_Witness_SecondPageInFlight ==
    /\ crawl_pc = "crawling"
    /\ page_index = 2
    /\ Len(pages[1].child_urls) >= 1
    /\ \E t \in DOMAIN fetch_pc : fetch_pc[t] = "fetching"
    /\ \E t \in DOMAIN fetch_pc : fetch_pc[t] = "waiting"

\* C38: no step changes the caller's sample list: from_samples leaves its
\* order and contents as they were, with a seed or without, when it returns
\* and when it raises on an empty split.
C38_InputListUnchanged == [][samples' = samples]_vars

\* C38 witness: a call without a seed raised on an empty split after
\* shuffling the samples into another order
C38_Witness_RaisedAfterReordering ==
    /\ datasets # <<>>
    /\ seed = None
    /\ datasets[1].raised
    /\ datasets[1].train \o datasets[1].validation \o datasets[1].test # samples
    /\ IsPermutation(datasets[1].train \o datasets[1].validation \o datasets[1].test,
                     samples)

====
